---------------------------- MODULE Spec2Model ----------------------------
(***************************************************************************)
(* A model of the character-level bigram language model of Nano-GPT:       *)
(* the vocabulary codec (chars / stoi / itos / encode / decode), get_batch, *)
(* BigramLanguageModel.forward and .generate, estimate_loss, the training  *)
(* loop, and saving / loading the state dict.                              *)
(*                                                                         *)
(* Characters are code points (small naturals), strings are sequences of   *)
(* code points, token ids are integers, tensors are sequences (a (B,T)     *)
(* tensor is a sequence of B rows of length T).  A Python call that raises *)
(* is a result record with ok = FALSE and the exception's name.            *)
(***************************************************************************)
EXTENDS Integers, Sequences, FiniteSets, Bags, TLC

VARIABLES
    \* ---- vocabulary cell
    text,        \* the corpus read from input.txt
    chars,       \* sorted(list(set(text)))
    vocab_size,  \* len(chars)
    stoi,        \* char -> id
    itos,        \* id -> char
    data,        \* torch.tensor(encode(text))
    train_data,  \* data[:n]
    val_data,    \* data[n:]
    cpc,         \* position in the vocabulary cell and the codec calls
    encIn,       \* argument of the last encode call
    encOut,      \* its result
    decIn,       \* argument of the last decode call
    decOut,      \* its result
    \* ---- the predictor
    table,       \* model.token_embedding_table.weight, (vocab_size, vocab_size)
    gpc,         \* position in a call of generate / forward
    seed,        \* generate's argument idx, a (1,T) tensor
    steps,       \* generate's argument max_new_tokens
    idx,         \* generate's running sequence
    gi,          \* iterations of generate's loop completed
    probs,       \* generate: the local probs of the latest iteration
    genOut,      \* what generate returned or raised
    scoreIn,     \* argument idx of a call model(idx)
    scoreOut,    \* what it returned or raised
    \* ---- get_batch, estimate_loss and the training loop
    tpc,         \* position in the batch cell, the training cell and estimate_loss
    iter,        \* the training loop's variable
    xb,          \* the sampled batch's inputs
    yb,          \* the sampled batch's targets
    loss,        \* the training loop's loss
    grad,        \* token_embedding_table.weight.grad
    optSteps,    \* the optimizer's step count
    training,    \* model.training, set by model.eval() / model.train()
    split,       \* estimate_loss: the split being evaluated
    evK,         \* estimate_loss: the inner loop's variable k
    X,           \* estimate_loss: the batch's inputs
    Y,           \* estimate_loss: the batch's targets
    evLosses,    \* estimate_loss: the local tensor losses, by the sum of its entries 0..k-1
    out,         \* estimate_loss: the dict out
    printed,     \* the "step ..." lines printed, each by its iteration number
    \* ---- saving and loading the state dict
    lpc,         \* position in the save cell and the load notebook
    file,        \* the contents of bigram-model-state-dict.pth
    fresh_size,  \* the vocabulary size bigram_model_with_state_dict is constructed with
    bigram_model_with_state_dict,  \* its token_embedding_table.weight
    model_state_dict,              \* what torch.load returned
    loadOut,     \* what load_state_dict returned or raised
    freshOut     \* what bigram_model_with_state_dict(idx) returned or raised

codecVars == <<text, chars, vocab_size, stoi, itos, data, train_data, val_data,
               cpc, encIn, encOut, decIn, decOut>>

genVars == <<table, gpc, seed, steps, idx, gi, probs, genOut, scoreIn, scoreOut>>

trainVars == <<tpc, iter, xb, yb, loss, grad, optSteps, training, split, evK, X, Y,
               evLosses, out, printed>>

loadVars == <<lpc, file, fresh_size, bigram_model_with_state_dict, model_state_dict,
              loadOut, freshOut>>

vars == <<codecVars, genVars, trainVars, loadVars>>

-----------------------------------------------------------------------------
(* Bounds of the model *)

\* code points of the corpus alphabet are 1..MaxCodePoint
MaxCodePoint == 2
\* corpora and strings have at most MaxTextLen characters
MaxTextLen == 4
\* the hyperparameters, scaled down (the notebook sets 32, 8, 10000, 300, 200)
batch_size == 2
block_size == 2
max_iters == 3
eval_interval == 2
eval_iters == 2
\* the generator states the initial weights are drawn under are 0..MaxSeed
MaxSeed == 1
\* a seed sequence handed to generate has at most MaxSeedLen ids
MaxSeedLen == 2
\* generate is asked for at most MaxNewTokens new tokens
MaxNewTokens == 2

-----------------------------------------------------------------------------
(* Results of calls that can raise *)

Ok(v) == [ok |-> TRUE, val |-> v, err |-> "none"]
Raise(e) == [ok |-> FALSE, val |-> <<>>, err |-> e]
NotCalled == [ok |-> FALSE, val |-> <<>>, err |-> "not called"]

-----------------------------------------------------------------------------
(* Sequences *)

\* all sequences over S of length at most n
SeqUpTo(S, n) == UNION {[1..k -> S] : k \in 0..n}

\* Python / torch slice a[lo:hi] of a 0-indexed sequence, for 0 <= lo;
\* the upper end is clamped to len(a)
Slice(a, lo, hi) ==
    LET h == IF hi > Len(a) THEN Len(a) ELSE hi
    IN  IF h <= lo THEN <<>> ELSE [k \in 1..(h - lo) |-> a[lo + k]]

-----------------------------------------------------------------------------
(* The vocabulary codec *)

Alphabet == 1..MaxCodePoint
Strings == SeqUpTo(Alphabet, MaxTextLen)

\* set(text)
set(t) == {t[k] : k \in DOMAIN t}

\* list(S): the elements of a set in whatever order the interpreter iterates it
list(S) == {l \in [1..Cardinality(S) -> S] : {l[k] : k \in DOMAIN l} = S}

\* insert x into an ascending sequence, after its equals
RECURSIVE Insert(_, _)
Insert(x, l) ==
    IF l = <<>> THEN <<x>>
    ELSE IF x < Head(l) THEN <<x>> \o l
    ELSE <<Head(l)>> \o Insert(x, Tail(l))

\* a plausible bug: the list of distinct characters is used as it comes, unsorted
sortedOmitted(l) == l

\* sorted(l): the elements of the list l, ascending by code point
RECURSIVE sorted(_)
sorted(l) ==
    IF l = <<>> THEN <<>>
    ELSE Insert(l[Len(l)], sorted(SubSeq(l, 1, Len(l) - 1)))

\* enumerate(cs): the pairs (i, ch), i counted from 0
enumerate(cs) == {<<k - 1, cs[k]>> : k \in DOMAIN cs}

\* {ch: i for i, ch in enumerate(cs)}; a later pair overwrites an earlier one
StoiOf(cs) ==
    [ch \in {p[2] : p \in enumerate(cs)} |->
        CHOOSE i \in 0..(Len(cs) - 1) :
            /\ <<i, ch>> \in enumerate(cs)
            /\ \A j \in 0..(Len(cs) - 1) : <<j, ch>> \in enumerate(cs) => j <= i]

\* a plausible bug: ids counted from 1 in the id -> char direction only
ItosOfFromOne(cs) == [i \in {p[1] + 1 : p \in enumerate(cs)} |-> cs[i]]

\* {i: ch for i, ch in enumerate(cs)}
ItosOf(cs) == [i \in {p[1] : p \in enumerate(cs)} |-> cs[i + 1]]

\* [st[c] for c in s]; a missing key raises KeyError
Lookup(st, s) ==
    IF \E k \in DOMAIN s : s[k] \notin DOMAIN st
    THEN Raise("KeyError")
    ELSE Ok([k \in DOMAIN s |-> st[s[k]]])

\* encode = lambda s: [stoi[c] for c in s]
encode(s) == Lookup(stoi, s)

\* decode = lambda l: "".join([itos[i] for i in l]); the characters joined are
\* the string whose k-th character is itos[l[k]]
decode(l) == Lookup(itos, l)

\* n = int(0.9 * len(data))
SplitPoint(len) == (9 * len) \div 10

\* token ids a caller may hand to decode: the valid ones and one on either side
IdCandidates == (0 - 1)..MaxCodePoint
IdLists == SeqUpTo(IdCandidates, MaxSeedLen)

\* the vocabulary cell run on corpus t, with list(set(t)) iterated in order l:
\* chars, vocab_size, stoi, itos, the encoded corpus and its split
VocabOf(t, l) ==
    LET cs == sorted(l)
        st == StoiOf(cs)
        d  == Lookup(st, t).val
        n  == SplitPoint(Len(d))
    IN  [chars |-> cs, vocab_size |-> Len(cs), stoi |-> st, itos |-> ItosOf(cs),
         data |-> d, train_data |-> Slice(d, 0, n), val_data |-> Slice(d, n, Len(d))]

\* before the vocabulary cell has run
VocabFresh(t) ==
    /\ text = t
    /\ chars = <<>>
    /\ vocab_size = 0
    /\ stoi = <<>>
    /\ itos = <<>>
    /\ data = <<>>
    /\ train_data = <<>>
    /\ val_data = <<>>
    /\ cpc = "start"

\* after the vocabulary cell has run on corpus t
VocabBuilt(t) ==
    /\ text = t
    /\ \E l \in list(set(t)) :
         LET v == VocabOf(t, l)
         IN  /\ chars = v.chars
             /\ vocab_size = v.vocab_size
             /\ stoi = v.stoi
             /\ itos = v.itos
             /\ data = v.data
             /\ train_data = v.train_data
             /\ val_data = v.val_data
    /\ cpc = "built"

\* no codec call made yet
CodecFresh ==
    /\ encIn = <<>>
    /\ encOut = NotCalled
    /\ decIn = <<>>
    /\ decOut = NotCalled

\* the vocabulary cell
BuildVocab ==
    /\ cpc = "start"
    /\ \E l \in list(set(text)) :
         LET v == VocabOf(text, l)
         IN  /\ chars' = v.chars
             /\ vocab_size' = v.vocab_size
             /\ stoi' = v.stoi
             /\ itos' = v.itos
             /\ data' = v.data
             /\ train_data' = v.train_data
             /\ val_data' = v.val_data
    /\ cpc' = "built"
    /\ UNCHANGED <<text, encIn, encOut, decIn, decOut>>
    /\ UNCHANGED genVars
    /\ UNCHANGED trainVars
    /\ UNCHANGED loadVars

\* a call encode(s)
EncodeCall ==
    /\ cpc = "built"
    /\ \E s \in Strings :
        /\ encIn' = s
        /\ encOut' = encode(s)
    /\ cpc' = "encoded"
    /\ UNCHANGED <<text, chars, vocab_size, stoi, itos, data, train_data, val_data,
                   decIn, decOut>>
    /\ UNCHANGED genVars
    /\ UNCHANGED trainVars
    /\ UNCHANGED loadVars

\* a call decode(encode(s)), the argument being the list encode returned
DecodeEncoded ==
    /\ cpc = "encoded"
    /\ encOut.ok
    /\ decIn' = encOut.val
    /\ decOut' = decode(encOut.val)
    /\ cpc' = "decoded"
    /\ UNCHANGED <<text, chars, vocab_size, stoi, itos, data, train_data, val_data,
                   encIn, encOut>>
    /\ UNCHANGED genVars
    /\ UNCHANGED trainVars
    /\ UNCHANGED loadVars

\* a call decode(l) on a list of integers from elsewhere
DecodeCall ==
    /\ cpc = "built"
    /\ \E l \in IdLists :
        /\ decIn' = l
        /\ decOut' = decode(l)
    /\ cpc' = "decoded"
    /\ UNCHANGED <<text, chars, vocab_size, stoi, itos, data, train_data, val_data,
                   encIn, encOut>>
    /\ UNCHANGED genVars
    /\ UNCHANGED trainVars
    /\ UNCHANGED loadVars

-----------------------------------------------------------------------------
(* The predictor: BigramLanguageModel *)

\* an optional argument
None == [none |-> TRUE, val |-> <<>>]
Some(v) == [none |-> FALSE, val |-> v]

\* nn.Embedding(V, V) initialises its weight from the random generator; the
\* model draws integer logits, r standing for the generator's state
EmbeddingInit(V, r) ==
    [i \in 0..(V - 1) |-> [j \in 0..(V - 1) |-> ((i + r) * (j + 1) + r) % 3]]

Tables(V) == {EmbeddingInit(V, r) : r \in 0..MaxSeed}

\* the largest element of a non-empty set of integers
Max(S) == CHOOSE x \in S : \A y \in S : y <= x

\* F.softmax(row): the probabilities are exp(row[j] - max) / sum_k exp(row[k] - max);
\* a distribution is represented by the exponents row[j] - max, which determine it
\* and which it determines (two rows have the same softmax iff they have the
\* same exponents)
softmax(row) ==
    [j \in DOMAIN row |-> row[j] - Max({row[k] : k \in DOMAIN row})]

\* a (B,T) tensor flattened to (B*T), row by row
RECURSIVE Flatten(_)
Flatten(m) == IF m = <<>> THEN <<>> ELSE Head(m) \o Flatten(Tail(m))

\* F.cross_entropy(logits, targets) on (N,C) and (N): a target outside [0,C)
\* raises; otherwise the loss is the mean over n of -log softmax(logits[n])[targets[n]],
\* represented by its N terms
cross_entropy(logits, targets) ==
    IF \E n \in DOMAIN targets : targets[n] \notin DOMAIN logits[n]
    THEN Raise("IndexError")
    ELSE Ok([n \in DOMAIN targets |->
              [probs |-> softmax(logits[n]), target |-> targets[n]]])

\* self.token_embedding_table(idx): row idx[b][t] of the table at every
\* position; an index outside [0, num_embeddings) raises IndexError
Embedding(tbl, x) ==
    IF \E b \in DOMAIN x : \E t \in DOMAIN x[b] : x[b][t] \notin DOMAIN tbl
    THEN Raise("IndexError")
    ELSE Ok([b \in DOMAIN x |-> [t \in DOMAIN x[b] |-> tbl[x[b][t]]]])

\* BigramLanguageModel.forward(idx, targets) on the table tbl
forward(tbl, x, targets) ==
    LET e == Embedding(tbl, x)
    IN  IF ~e.ok THEN e
        ELSE IF targets.none THEN Ok([logits |-> e.val, loss |-> None])
        ELSE LET l == cross_entropy(Flatten(e.val), Flatten(targets.val))
             IN  IF ~l.ok THEN l
                 ELSE Ok([logits |-> Flatten(e.val), loss |-> Some(l.val)])

\* a plausible bug: the sampled category is counted from 1
multinomialFromOne(input) ==
    {f \in [DOMAIN input -> 1..Cardinality(DOMAIN input[1])] :
        \A b \in DOMAIN input : (f[b] - 1) \in DOMAIN input[b]}

\* torch.multinomial(probs, num_samples=1) on (B,C): for every row one category
\* of positive probability; every exponential is positive, so any category
multinomial(input) ==
    {f \in [DOMAIN input -> 0..(Cardinality(DOMAIN input[1]) - 1)] :
        \A b \in DOMAIN input : f[b] \in DOMAIN input[b]}

\* a plausible bug: the running sequence is replaced by the sampled column
catReplacing(a, nxt) == [b \in DOMAIN a |-> <<nxt[b]>>]

\* torch.cat((idx, idx_next), dim=1) of (B,T) and (B,1)
cat(a, nxt) == [b \in DOMAIN a |-> a[b] \o <<nxt[b]>>]

\* a plausible bug: the first time step is taken, logits[:, 0, :]
GenerateProbsFirstStep(tbl, x) ==
    LET r == forward(tbl, x, None)
        T == Len(x[1])
    IN  IF ~r.ok THEN r
        ELSE IF T = 0 THEN Raise("IndexError")
        ELSE LET logits == [b \in DOMAIN x |-> r.val.logits[b][1]]
             IN  Ok([b \in DOMAIN x |-> softmax(logits[b])])

\* the first half of one iteration of generate's loop on the running sequence
\* x: logits, loss = self(idx); logits = logits[:, -1, :]; probs = F.softmax(logits)
GenerateProbs(tbl, x) ==
    LET r == forward(tbl, x, None)
        T == Len(x[1])
    IN  IF ~r.ok THEN r
        ELSE IF T = 0 THEN Raise("IndexError")         \* logits[:, -1, :]
        ELSE LET logits == [b \in DOMAIN x |-> r.val.logits[b][T]]
             IN  Ok([b \in DOMAIN x |-> softmax(logits[b])])

\* one iteration of generate's loop on the running sequence x: the set of its
\* outcomes, one per sample, each with the probs it was sampled from
GenerateBody(tbl, x) ==
    LET p == GenerateProbs(tbl, x)
    IN  IF ~p.ok THEN {[ret |-> p, probs |-> <<>>]}
        ELSE {[ret |-> Ok(cat(x, idx_next)), probs |-> p.val] :
                idx_next \in multinomial(p.val)}

\* the (1,T) tensors a caller may hand to generate or to forward
SeedTensors == {<<r>> : r \in SeqUpTo(IdCandidates, MaxSeedLen)}

\* the predictor constructed, nothing called on it yet
PredictorFresh ==
    /\ table \in Tables(vocab_size)
    /\ gpc = "idle"
    /\ seed = <<>>
    /\ steps = 0
    /\ idx = <<>>
    /\ gi = 0
    /\ probs = <<>>
    /\ genOut = NotCalled
    /\ scoreIn = <<>>
    /\ scoreOut = NotCalled

\* no predictor
PredictorAbsent ==
    /\ table = <<>>
    /\ gpc = "absent"
    /\ seed = <<>>
    /\ steps = 0
    /\ idx = <<>>
    /\ gi = 0
    /\ probs = <<>>
    /\ genOut = NotCalled
    /\ scoreIn = <<>>
    /\ scoreOut = NotCalled

\* a call generate(idx, max_new_tokens) is entered
GenerateCall ==
    /\ gpc = "idle"
    /\ \E sd \in SeedTensors, n \in 0..MaxNewTokens :
        /\ seed' = sd
        /\ steps' = n
        /\ idx' = sd
    /\ gi' = 0
    /\ probs' = <<>>
    /\ gpc' = "loop"
    /\ UNCHANGED <<table, genOut, scoreIn, scoreOut>>
    /\ UNCHANGED codecVars
    /\ UNCHANGED trainVars
    /\ UNCHANGED loadVars

\* the generation cell: context = torch.zeros((1, 1), dtype=torch.long);
\* m.generate(context, max_new_tokens=500) is entered, 500 scaled down to
\* MaxNewTokens
GenerateContext ==
    /\ tpc = "done"
    /\ gpc = "idle"
    /\ seed' = <<<<0>>>>
    /\ steps' = MaxNewTokens
    /\ idx' = <<<<0>>>>
    /\ gi' = 0
    /\ probs' = <<>>
    /\ gpc' = "loop"
    /\ UNCHANGED <<table, genOut, scoreIn, scoreOut>>
    /\ UNCHANGED codecVars
    /\ UNCHANGED trainVars
    /\ UNCHANGED loadVars

\* one iteration of the loop: it appends a sampled id, or it raises
GenerateIter ==
    /\ gpc = "loop"
    /\ gi < steps
    /\ \E r \in GenerateBody(table, idx) :
        IF r.ret.ok
        THEN /\ idx' = r.ret.val
             /\ probs' = r.probs
             /\ gi' = gi + 1
             /\ UNCHANGED <<gpc, genOut>>
        ELSE /\ genOut' = r.ret
             /\ gpc' = "failed"
             /\ UNCHANGED <<idx, gi, probs>>
    /\ UNCHANGED <<table, seed, steps, scoreIn, scoreOut>>
    /\ UNCHANGED codecVars
    /\ UNCHANGED trainVars
    /\ UNCHANGED loadVars

\* the loop is over: return idx
GenerateReturn ==
    /\ gpc = "loop"
    /\ gi >= steps
    /\ genOut' = Ok(idx)
    /\ gpc' = "returned"
    /\ UNCHANGED <<table, seed, steps, idx, gi, probs, scoreIn, scoreOut>>
    /\ UNCHANGED codecVars
    /\ UNCHANGED trainVars
    /\ UNCHANGED loadVars

\* print(decode(m.generate(...)[0].tolist()))
PrintGenerated ==
    /\ gpc = "returned"
    /\ decIn' = genOut.val[1]
    /\ decOut' = decode(genOut.val[1])
    /\ gpc' = "printed"
    /\ UNCHANGED <<text, chars, vocab_size, stoi, itos, data, train_data, val_data,
                   cpc, encIn, encOut>>
    /\ UNCHANGED <<table, seed, steps, idx, gi, probs, genOut, scoreIn, scoreOut>>
    /\ UNCHANGED trainVars
    /\ UNCHANGED loadVars

\* a call model(idx) on a tensor from elsewhere
ScoreCall ==
    /\ gpc = "idle"
    /\ \E x \in SeedTensors :
        /\ scoreIn' = x
        /\ scoreOut' = forward(table, x, None)
    /\ gpc' = "scored"
    /\ UNCHANGED <<table, seed, steps, idx, gi, probs, genOut>>
    /\ UNCHANGED codecVars
    /\ UNCHANGED trainVars
    /\ UNCHANGED loadVars

\* a call model(idx) on the sequence generate returned
ScoreGenerated ==
    /\ gpc = "returned"
    /\ scoreIn' = genOut.val
    /\ scoreOut' = forward(table, genOut.val, None)
    /\ gpc' = "scored"
    /\ UNCHANGED <<table, seed, steps, idx, gi, probs, genOut>>
    /\ UNCHANGED codecVars
    /\ UNCHANGED trainVars
    /\ UNCHANGED loadVars

-----------------------------------------------------------------------------
(* get_batch, estimate_loss and the training loop *)

\* a plausible bug: the last start index is one too far
randintInclusive(high) == 0..high

\* torch.randint(high, ...): the values an entry can take, 0 <= i < high
randint(high) == 0..(high - 1)

\* get_batch(split): the set of its outcomes.  torch.randint raises when its
\* upper end is not above 0; otherwise every row is the window at one of the
\* start indices, drawn independently of the other rows.  (x.to(device) and
\* y.to(device) leave the values as they are.)
get_batch(sp) ==
    LET d == IF sp = "train" THEN train_data ELSE val_data
        high == Len(d) - block_size
        windows == {[x |-> Slice(d, i, i + block_size),
                     y |-> Slice(d, i + 1, i + block_size + 1)] : i \in randint(high)}
    IN  IF high <= 0 THEN {Raise("RuntimeError")}
        ELSE {Ok([x |-> [b \in 1..batch_size |-> w[b].x],
                  y |-> [b \in 1..batch_size |-> w[b].y]]) :
                    w \in [1..batch_size -> windows]}

\* the bag holding the elements of the sequence q
RECURSIVE BagOf(_)
BagOf(q) == IF q = <<>> THEN EmptyBag ELSE SetToBag({Head(q)}) (+) BagOf(Tail(q))

\* loss.item(): a loss is the mean of its terms, whatever their order, and is
\* represented by the bag of them
item(l) == BagOf(l.val)

\* losses.mean(): the entries are means over equally many terms, so their mean
\* is the mean of all their terms; only the mean of the tensor is ever read,
\* and the tensor is kept as the bag of the terms of its entries
mean(ls) == ls

\* optimizer.step(): AdamW rewrites every entry of the weight from the
\* gradient, its moment estimates and the weight decay, none of which are
\* computed here: the new weight is any table of the same shape
AdamWStep(tbl) == Tables(Cardinality(DOMAIN tbl))

\* the cells from the batch cell on have not run
TrainFresh ==
    /\ tpc = "sample"
    /\ iter = 0
    /\ xb = <<>>
    /\ yb = <<>>
    /\ loss = None
    /\ grad = None
    /\ optSteps = 0
    /\ training = TRUE
    /\ split = "none"
    /\ evK = 0
    /\ X = <<>>
    /\ Y = <<>>
    /\ evLosses = EmptyBag
    /\ out = [train |-> None, val |-> None]
    /\ printed = <<>>

\* the cells from the batch cell on are not run
TrainAbsent ==
    /\ tpc = "absent"
    /\ iter = 0
    /\ xb = <<>>
    /\ yb = <<>>
    /\ loss = None
    /\ grad = None
    /\ optSteps = 0
    /\ training = TRUE
    /\ split = "none"
    /\ evK = 0
    /\ X = <<>>
    /\ Y = <<>>
    /\ evLosses = EmptyBag
    /\ out = [train |-> None, val |-> None]
    /\ printed = <<>>

estLocals == <<split, evK, X, Y, evLosses, out>>

\* the batch cell: xb, yb = get_batch("train")
SampleBatch ==
    /\ tpc = "sample"
    /\ \E r \in get_batch("train") :
        IF r.ok
        THEN /\ xb' = r.val.x
             /\ yb' = r.val.y
             /\ tpc' = "construct"
        ELSE /\ tpc' = "failed"
             /\ UNCHANGED <<xb, yb>>
    /\ UNCHANGED <<iter, loss, grad, optSteps, training, printed>>
    /\ UNCHANGED estLocals
    /\ UNCHANGED codecVars
    /\ UNCHANGED loadVars
    /\ UNCHANGED genVars

\* model = BigramLanguageModel(vocab_size); optimizer = torch.optim.AdamW(...)
Construct ==
    /\ tpc = "construct"
    /\ table' \in Tables(vocab_size)
    /\ optSteps' = 0
    /\ iter' = 0
    /\ tpc' = "loop"
    /\ UNCHANGED <<gpc, seed, steps, idx, gi, probs, genOut, scoreIn, scoreOut>>
    /\ UNCHANGED <<xb, yb, loss, grad, training, printed>>
    /\ UNCHANGED estLocals
    /\ UNCHANGED codecVars
    /\ UNCHANGED loadVars

\* a plausible bug: the loop is left one iteration early, range(max_iters - 1)
LoopExitEarly ==
    /\ tpc = "loop"
    /\ iter >= max_iters - 1
    /\ tpc' = "done"
    /\ gpc' = "idle"
    /\ UNCHANGED <<table, seed, steps, idx, gi, probs, genOut, scoreIn, scoreOut>>
    /\ UNCHANGED <<iter, xb, yb, loss, grad, optSteps, training, printed>>
    /\ UNCHANGED estLocals
    /\ UNCHANGED codecVars
    /\ UNCHANGED loadVars

\* for iter in range(max_iters): the loop is over; print("training complete")
LoopExit ==
    /\ tpc = "loop"
    /\ iter >= max_iters
    /\ tpc' = "done"
    /\ gpc' = "idle"
    /\ UNCHANGED <<table, seed, steps, idx, gi, probs, genOut, scoreIn, scoreOut>>
    /\ UNCHANGED <<iter, xb, yb, loss, grad, optSteps, training, printed>>
    /\ UNCHANGED estLocals
    /\ UNCHANGED codecVars
    /\ UNCHANGED loadVars

\* if iter % eval_interval == 0: estimate_loss() is entered: out = {},
\* model.eval(), the first split's losses = torch.zeros(eval_iters)
EstimateEnter ==
    /\ tpc = "loop"
    /\ iter < max_iters
    /\ iter % eval_interval = 0
    /\ out' = [train |-> None, val |-> None]
    /\ training' = FALSE
    /\ split' = "train"
    /\ evK' = 0
    /\ evLosses' = EmptyBag
    /\ tpc' = "estimate"
    /\ UNCHANGED <<X, Y>>
    /\ UNCHANGED <<iter, xb, yb, loss, grad, optSteps, printed>>
    /\ UNCHANGED codecVars
    /\ UNCHANGED loadVars
    /\ UNCHANGED genVars

\* one iteration of estimate_loss's inner loop, which does tableEffect to the
\* weight: X, Y = get_batch(split); logits, loss = model(X, Y);
\* losses[k] = loss.item()
EstimateIterDoing(tableEffect) ==
    /\ tpc = "estimate"
    /\ evK < eval_iters
    /\ \E r \in get_batch(split) :
        LET f == IF r.ok THEN forward(table, r.val.x, Some(r.val.y)) ELSE r
        IN  IF f.ok
            THEN /\ X' = r.val.x
                 /\ Y' = r.val.y
                 /\ evLosses' = evLosses (+) item(f.val.loss)
                 /\ evK' = evK + 1
                 /\ UNCHANGED tpc
            ELSE /\ tpc' = "failed"
                 /\ UNCHANGED <<X, Y, evLosses, evK>>
    /\ tableEffect
    /\ UNCHANGED <<gpc, seed, steps, idx, gi, probs, genOut, scoreIn, scoreOut>>
    /\ UNCHANGED <<split, out>>
    /\ UNCHANGED <<iter, xb, yb, loss, grad, optSteps, training, printed>>
    /\ UNCHANGED codecVars
    /\ UNCHANGED loadVars

\* a plausible bug: the evaluation also takes an optimizer step
EstimateIterStepping == EstimateIterDoing(table' \in AdamWStep(table) \ {table})

\* estimate_loss runs under torch.no_grad and calls no optimizer: the weight
\* is left as it is
EstimateIter == EstimateIterDoing(UNCHANGED table)

\* the inner loop is over: out[split] = losses.mean(); the next split starts
\* with a new losses tensor
EstimateSplitDone ==
    /\ tpc = "estimate"
    /\ evK >= eval_iters
    /\ split = "train"
    /\ out' = [out EXCEPT !.train = Some(mean(evLosses))]
    /\ split' = "val"
    /\ evK' = 0
    /\ evLosses' = EmptyBag
    /\ UNCHANGED <<X, Y>>
    /\ UNCHANGED <<tpc, iter, xb, yb, loss, grad, optSteps, training, printed>>
    /\ UNCHANGED codecVars
    /\ UNCHANGED loadVars
    /\ UNCHANGED genVars

\* the last split is over: out["val"] = losses.mean(); model.train(); return out;
\* the training loop prints the step line from the dict returned and keeps
\* no other use of it (the line is recorded by its iteration number)
EstimateReturn ==
    /\ tpc = "estimate"
    /\ evK >= eval_iters
    /\ split = "val"
    /\ ~[out EXCEPT !.val = Some(mean(evLosses))].train.none
    /\ printed' = Append(printed, iter)
    /\ training' = TRUE
    /\ out' = [train |-> None, val |-> None]
    /\ split' = "none"
    /\ evK' = 0
    /\ X' = <<>>
    /\ Y' = <<>>
    /\ evLosses' = EmptyBag
    /\ tpc' = "batch"
    /\ UNCHANGED <<iter, xb, yb, loss, grad, optSteps>>
    /\ UNCHANGED codecVars
    /\ UNCHANGED loadVars
    /\ UNCHANGED genVars

\* iter % eval_interval # 0: no evaluation in this iteration
EstimateSkip ==
    /\ tpc = "loop"
    /\ iter < max_iters
    /\ iter % eval_interval # 0
    /\ tpc' = "batch"
    /\ UNCHANGED <<iter, xb, yb, loss, grad, optSteps, training, printed>>
    /\ UNCHANGED estLocals
    /\ UNCHANGED codecVars
    /\ UNCHANGED loadVars
    /\ UNCHANGED genVars

\* xb, yb = get_batch("train")
TrainBatch ==
    /\ tpc = "batch"
    /\ \E r \in get_batch("train") :
        IF r.ok
        THEN /\ xb' = r.val.x
             /\ yb' = r.val.y
             /\ tpc' = "forward"
        ELSE /\ tpc' = "failed"
             /\ UNCHANGED <<xb, yb>>
    /\ UNCHANGED <<iter, loss, grad, optSteps, training, printed>>
    /\ UNCHANGED estLocals
    /\ UNCHANGED codecVars
    /\ UNCHANGED loadVars
    /\ UNCHANGED genVars

\* logits, loss = model(xb, yb)
TrainForward ==
    /\ tpc = "forward"
    /\ LET f == forward(table, xb, Some(yb))
       IN  IF f.ok
           THEN /\ loss' = Some(item(f.val.loss))
                /\ tpc' = "zero_grad"
           ELSE /\ tpc' = "failed"
                /\ UNCHANGED loss
    /\ UNCHANGED <<iter, xb, yb, grad, optSteps, training, printed>>
    /\ UNCHANGED estLocals
    /\ UNCHANGED codecVars
    /\ UNCHANGED loadVars
    /\ UNCHANGED genVars

\* optimizer.zero_grad(set_to_none=True)
ZeroGrad ==
    /\ tpc = "zero_grad"
    /\ grad' = None
    /\ tpc' = "backward"
    /\ UNCHANGED <<iter, xb, yb, loss, optSteps, training, printed>>
    /\ UNCHANGED estLocals
    /\ UNCHANGED codecVars
    /\ UNCHANGED loadVars
    /\ UNCHANGED genVars

\* loss.backward(): the weight's grad is the gradient of this loss
Backward ==
    /\ tpc = "backward"
    /\ grad' = loss
    /\ tpc' = "step"
    /\ UNCHANGED <<iter, xb, yb, loss, optSteps, training, printed>>
    /\ UNCHANGED estLocals
    /\ UNCHANGED codecVars
    /\ UNCHANGED loadVars
    /\ UNCHANGED genVars

\* optimizer.step(), and the loop goes to its next iteration
OptimizerStep ==
    /\ tpc = "step"
    /\ table' \in AdamWStep(table)
    /\ optSteps' = optSteps + 1
    /\ iter' = iter + 1
    /\ tpc' = "loop"
    /\ UNCHANGED <<gpc, seed, steps, idx, gi, probs, genOut, scoreIn, scoreOut>>
    /\ UNCHANGED <<xb, yb, loss, grad, training, printed>>
    /\ UNCHANGED estLocals
    /\ UNCHANGED codecVars
    /\ UNCHANGED loadVars

-----------------------------------------------------------------------------
-----------------------------------------------------------------------------
(* Saving the state dict and loading it into a new predictor *)

\* the shape of a weight
Shape(w) ==
    <<Cardinality(DOMAIN w),
      IF DOMAIN w = {} THEN 0 ELSE Cardinality(DOMAIN w[0])>>

\* model.state_dict(): the single parameter under its name
state_dict(w) == [n \in {"token_embedding_table.weight"} |-> w]

\* a plausible bug: the parameters are reported loaded and never copied
load_state_dictNoCopy(w, sd) == [ret |-> Ok(<<>>), weight |-> w]

\* a plausible bug: the parameter is copied whatever its shape
load_state_dictUnchecked(w, sd) ==
    IF DOMAIN sd # DOMAIN state_dict(w)
    THEN [ret |-> Raise("RuntimeError"), weight |-> w]
    ELSE [ret |-> Ok(<<>>), weight |-> sd["token_embedding_table.weight"]]

\* module.load_state_dict(sd) on a module whose weight is w (strict): a missing
\* or unexpected key, or a parameter of another shape, raises RuntimeError and
\* leaves the weight; otherwise the stored parameter is copied into the weight
load_state_dict(w, sd) ==
    IF DOMAIN sd # DOMAIN state_dict(w)
    THEN [ret |-> Raise("RuntimeError"), weight |-> w]
    ELSE IF Shape(sd["token_embedding_table.weight"]) # Shape(w)
    THEN [ret |-> Raise("RuntimeError"), weight |-> w]
    ELSE [ret |-> Ok(<<>>), weight |-> sd["token_embedding_table.weight"]]

\* nothing saved, no second predictor
LoadFresh ==
    /\ lpc = "trained"
    /\ file = <<>>
    /\ fresh_size = 0
    /\ bigram_model_with_state_dict = <<>>
    /\ model_state_dict = <<>>
    /\ loadOut = NotCalled
    /\ freshOut = NotCalled

\* the save cell and the load notebook are not run
LoadAbsent ==
    /\ lpc = "absent"
    /\ file = <<>>
    /\ fresh_size = 0
    /\ bigram_model_with_state_dict = <<>>
    /\ model_state_dict = <<>>
    /\ loadOut = NotCalled
    /\ freshOut = NotCalled

\* torch.save(model.state_dict(), ".../bigram-model-state-dict.pth")
SaveStateDict ==
    /\ lpc = "trained"
    /\ file' = state_dict(table)
    /\ lpc' = "saved"
    /\ UNCHANGED <<fresh_size, bigram_model_with_state_dict, model_state_dict,
                   loadOut, freshOut>>
    /\ UNCHANGED codecVars
    /\ UNCHANGED genVars
    /\ UNCHANGED trainVars

\* bigram_model_with_state_dict = BigramLanguageModel(65), the size being any
\* the caller writes; model_state_dict = torch.load(".../bigram-model-state-dict.pth")
ConstructAndRead ==
    /\ lpc = "saved"
    /\ \E V \in 1..MaxCodePoint :
        /\ fresh_size' = V
        /\ bigram_model_with_state_dict' \in Tables(V)
    /\ model_state_dict' = file
    /\ lpc' = "read"
    /\ UNCHANGED <<file, loadOut, freshOut>>
    /\ UNCHANGED codecVars
    /\ UNCHANGED genVars
    /\ UNCHANGED trainVars

\* bigram_model_with_state_dict.load_state_dict(model_state_dict)
LoadStateDict ==
    /\ lpc = "read"
    /\ LET r == load_state_dict(bigram_model_with_state_dict, model_state_dict)
       IN  /\ loadOut' = r.ret
           /\ bigram_model_with_state_dict' = r.weight
           /\ lpc' = IF r.ret.ok THEN "loaded" ELSE "load_failed"
    /\ UNCHANGED <<file, fresh_size, model_state_dict, freshOut>>
    /\ UNCHANGED codecVars
    /\ UNCHANGED genVars
    /\ UNCHANGED trainVars

\* the same input through the saved predictor and through the loaded one:
\* model(idx) and bigram_model_with_state_dict(idx)
ScoreLoaded ==
    /\ lpc = "loaded"
    /\ \E x \in SeedTensors :
        /\ scoreIn' = x
        /\ scoreOut' = forward(table, x, None)
        /\ freshOut' = forward(bigram_model_with_state_dict, x, None)
    /\ lpc' = "scored"
    /\ UNCHANGED <<table, gpc, seed, steps, idx, gi, probs, genOut>>
    /\ UNCHANGED <<file, fresh_size, bigram_model_with_state_dict, model_state_dict,
                   loadOut>>
    /\ UNCHANGED codecVars
    /\ UNCHANGED trainVars

(* Specifications *)

CodecInit ==
    /\ \E t \in Strings : VocabFresh(t)
    /\ CodecFresh
    /\ PredictorAbsent
    /\ TrainAbsent
    /\ LoadAbsent


CodecNext == BuildVocab \/ EncodeCall \/ DecodeEncoded \/ DecodeCall

SpecCodec == CodecInit /\ [][CodecNext]_vars


\* a vocabulary from the corpus of the code points 1..v, a predictor of its size
GenInit ==
    /\ \E v \in 1..MaxCodePoint : VocabBuilt([k \in 1..v |-> k])
    /\ CodecFresh
    /\ PredictorFresh
    /\ TrainAbsent
    /\ LoadAbsent

GenNext ==
    \/ GenerateCall
    \/ GenerateIter
    \/ GenerateReturn
    \/ PrintGenerated
    \/ ScoreCall
    \/ ScoreGenerated

SpecGen == GenInit /\ [][GenNext]_vars

\* the corpus of length len that repeats the code points 1..v
Repeat(v, len) == [n \in 1..len |-> ((n - 1) % v) + 1]

\* a corpus long enough for a validation split of more than block_size ids,
\* and one whose validation split has block_size ids only
TrainCorpora ==
    {Repeat(MaxCodePoint, 10 * (block_size + 2)), Repeat(MaxCodePoint, 10 * block_size)}

\* the vocabulary cell has run on a corpus
TrainInit ==
    /\ \E t \in Strings \cup TrainCorpora : VocabBuilt(t)
    /\ CodecFresh
    /\ PredictorAbsent
    /\ TrainFresh
    /\ LoadAbsent

TrainNext ==
    \/ SampleBatch
    \/ Construct
    \/ LoopExit
    \/ EstimateEnter
    \/ EstimateIter
    \/ EstimateSplitDone
    \/ EstimateReturn
    \/ EstimateSkip
    \/ TrainBatch
    \/ TrainForward
    \/ ZeroGrad
    \/ Backward
    \/ OptimizerStep
    \/ GenerateContext
    \/ GenerateIter
    \/ GenerateReturn
    \/ PrintGenerated

SpecTrain == TrainInit /\ [][TrainNext]_vars

\* where the program stands: the position in the cells, in estimate_loss's two
\* loops and in generate's loop
Position == <<tpc, split, evK, gpc, gi>>

\* the program has a next step: a cell is under way, or the training cell is
\* over and the generation cell is not (it ends with its print)
Running ==
    \/ tpc \in {"sample", "construct", "loop", "estimate", "batch", "forward",
                "zero_grad", "backward", "step"}
    \/ tpc = "done" /\ gpc \in {"idle", "loop", "returned"}

\* the cells run to their end: the interpreter takes the next step of the
\* program whenever there is one.  This is WF_vars(TrainNext), that is
\* []<>~ENABLED <<TrainNext>>_vars \/ []<><<TrainNext>>_vars, with the enabling
\* condition written out as Running and the step as a change of Position,
\* which every step of TrainNext makes
SpecTrainFair ==
    /\ TrainInit
    /\ [][TrainNext]_vars
    /\ ([]<>(~Running) \/ []<><<Position' # Position>>_vars)

\* training is over: a vocabulary from the corpus of the code points 1..v and
\* a predictor of its size with whatever weight training left
LoadInit ==
    /\ \E v \in 1..MaxCodePoint : VocabBuilt([n \in 1..v |-> n])
    /\ CodecFresh
    /\ PredictorFresh
    /\ TrainAbsent
    /\ LoadFresh

LoadNext ==
    \/ SaveStateDict
    \/ ConstructAndRead
    \/ LoadStateDict
    \/ ScoreLoaded

SpecLoad == LoadInit /\ [][LoadNext]_vars

-----------------------------------------------------------------------------
(* Properties *)

\* every id of the (B,T) tensor x lies in [0, vocab_size)
ValidIds(x) ==
    \A b \in DOMAIN x : \A t \in DOMAIN x[b] : x[b][t] \in 0..(vocab_size - 1)

\* a call of generate has been entered (and, if it returned, maybe used)
InGenerate ==
    \/ gpc \in {"loop", "failed", "returned", "printed"}
    \/ gpc = "scored" /\ genOut.ok

\* C1: round trip: a text made only of characters of the corpus is encoded
\* without error, and decoding the ids gives the text back, character for
\* character.
C1_RoundTrip ==
    /\ (cpc \in {"encoded", "decoded"} /\ encOut.err # "not called"
            /\ set(encIn) \subseteq set(text))
        => encOut.ok
    /\ (cpc = "decoded" /\ encOut.ok)
        => (decIn = encOut.val /\ decOut.ok /\ decOut.val = encIn)

\* the corpus itself, of two distinct characters, has gone through
\* encode and decode
C1_Witness ==
    /\ cpc = "decoded"
    /\ encOut.ok
    /\ encIn = text
    /\ vocab_size >= 2

\* C2 as stated: for every seed that is a token sequence (all ids in
\* [0, vocab_size)) and every steps >= 0, generate returns a sequence of length
\* len(seed) + steps that starts with the seed.
C2_EverySeedReturns ==
    (gpc \in {"failed", "returned"} /\ ValidIds(seed))
    => /\ genOut.ok
       /\ Len(genOut.val[1]) = Len(seed[1]) + steps
       /\ SubSeq(genOut.val[1], 1, Len(seed[1])) = seed[1]

\* C2 as amended: while generate runs the sequence is the seed followed by one
\* id per completed iteration; it returns after exactly steps iterations, so
\* whatever it returns has length len(seed) + steps and starts with the seed;
\* and it raises only when steps >= 1 and the seed is empty or holds an id
\* outside [0, vocab_size), so it returns for every non-empty seed of valid ids.
C2_GenerationLength ==
    /\ (InGenerate /\ gpc # "failed")
        => /\ Len(idx) = Len(seed)
           /\ Len(idx[1]) = Len(seed[1]) + gi
           /\ SubSeq(idx[1], 1, Len(seed[1])) = seed[1]
    /\ genOut.ok
        => /\ gi = steps
           /\ genOut.val = idx
           /\ Len(genOut.val[1]) = Len(seed[1]) + steps
    /\ gpc = "failed"
        => /\ steps >= 1
           /\ (Len(seed[1]) = 0 \/ ~ValidIds(seed))

\* generate has returned a two-id seed extended by two sampled ids
C2_Witness ==
    /\ gpc = "returned"
    /\ Len(seed[1]) = 2
    /\ steps = 2
    /\ Len(genOut.val[1]) = 4

\* C3: generation validity: from a seed whose ids all lie in [0, vocab_size),
\* every id of the running sequence lies in [0, vocab_size) after every
\* iteration, generate does not fail on an id, and what it returns is accepted
\* by decode and by forward.
C3_GenerationValidity ==
    (InGenerate /\ ValidIds(seed))
    => /\ ValidIds(idx)
       /\ (gpc = "failed" => Len(seed[1]) = 0)
       /\ (gpc = "printed" => decOut.ok)
       /\ (gpc = "scored" => (scoreIn = idx /\ scoreOut.ok))

\* a valid seed was extended by two different sampled ids and scored
C3_Witness ==
    /\ gpc = "scored"
    /\ genOut.ok
    /\ ValidIds(seed)
    /\ Len(seed[1]) >= 1
    /\ steps >= 2
    /\ idx[1][Len(idx[1])] # idx[1][Len(idx[1]) - 1]

\* (x, y) is a batch of the split d: batch_size rows of block_size ids, every
\* row of x a window of d that ends before d does, the same row of y the
\* window one position later
IsBatchOf(x, y, d) ==
    /\ Len(x) = batch_size
    /\ Len(y) = batch_size
    /\ \A b \in 1..batch_size :
        /\ Len(x[b]) = block_size
        /\ Len(y[b]) = block_size
        /\ \E i \in 0..(Len(d) - block_size - 1) :
            /\ i + block_size + 1 <= Len(d)
            /\ \A t \in 0..(block_size - 1) :
                /\ x[b][t + 1] = d[i + t + 1]
                /\ y[b][t + 1] = d[(i + t + 1) + 1]

\* C4: batch invariant: every batch get_batch returns, in the batch cell, in
\* the training loop and in estimate_loss on either split, has batch_size rows
\* of block_size ids, each row of x a window of the split that does not run
\* past its end and the row of y the same window shifted by one position; and
\* get_batch fails only on a split of at most block_size ids.
C4_BatchInvariant ==
    /\ xb # <<>> => IsBatchOf(xb, yb, train_data)
    /\ (tpc = "estimate" /\ evK >= 1)
        => IsBatchOf(X, Y, IF split = "train" THEN train_data ELSE val_data)
    /\ (tpc = "estimate" /\ evK = 0 /\ split = "val")
        => IsBatchOf(X, Y, train_data)
    /\ (tpc = "failed" /\ split = "none") => Len(train_data) <= block_size
    /\ (tpc = "failed" /\ split = "train") => Len(train_data) <= block_size
    /\ (tpc = "failed" /\ split = "val") => Len(val_data) <= block_size

\* estimate_loss holds a batch of the validation split whose rows are
\* different windows, while the training loop holds one of the train split
C4_Witness ==
    /\ tpc = "estimate"
    /\ split = "val"
    /\ evK >= 1
    /\ X[1] # X[2]
    /\ xb # <<>>
    /\ xb[1] # xb[2]

\* C5: the weight changes only in optimizer.step: no step of estimate_loss (on
\* the train or the validation split), of forward, of generate or of any other
\* operation changes a single entry of it.
C5_OnlyTrainingStepMutates ==
    [][table' # table
        => \/ tpc = "construct"
           \/ tpc = "step" /\ optSteps' = optSteps + 1]_vars

\* training, with two evaluations, is over and generate has returned
C5_Witness ==
    /\ tpc = "done"
    /\ gpc = "printed"
    /\ optSteps = max_iters
    /\ Len(printed) >= 2
    /\ Len(genOut.val[1]) = 1 + MaxNewTokens

\* C6: persistence round trip: after a successful load_state_dict of the saved
\* state dict, the new predictor's weight is the saved predictor's, entry for
\* entry, whatever it was initialised to, and forward gives the same logits (or
\* the same failure) on both for the same input.
C6_PersistenceRoundTrip ==
    /\ lpc \in {"loaded", "scored"}
        => /\ loadOut.ok
           /\ bigram_model_with_state_dict = table
           /\ bigram_model_with_state_dict = file["token_embedding_table.weight"]
    /\ lpc = "scored"
        => /\ freshOut.ok = scoreOut.ok
           /\ scoreOut.ok => freshOut.val.logits = scoreOut.val.logits
           /\ ~scoreOut.ok => freshOut.err = scoreOut.err

\* a two-id input of valid ids went through both predictors of size 2
C6_Witness ==
    /\ lpc = "scored"
    /\ vocab_size = 2
    /\ Len(scoreIn[1]) = 2
    /\ scoreOut.ok
    /\ freshOut.ok
    /\ scoreIn[1][1] # scoreIn[1][2]

\* C7: shape mismatch: load_state_dict into a predictor constructed with a
\* vocabulary size other than the stored table's raises at the load itself and
\* leaves the predictor's weight; a load that succeeds is one of equal sizes.
C7_ShapeMismatchFailsAtLoad ==
    /\ (lpc \in {"loaded", "scored", "load_failed"} /\ fresh_size # vocab_size)
        => /\ lpc = "load_failed"
           /\ ~loadOut.ok
           /\ loadOut.err = "RuntimeError"
           /\ Shape(bigram_model_with_state_dict) = <<fresh_size, fresh_size>>
    /\ lpc \in {"loaded", "scored"}
        => /\ fresh_size = vocab_size
           /\ Shape(bigram_model_with_state_dict) = Shape(file["token_embedding_table.weight"])
    /\ (lpc = "load_failed") => fresh_size # vocab_size

\* a state dict of a size-1 table was refused by a predictor of size 2
C7_Witness ==
    /\ lpc = "load_failed"
    /\ vocab_size = 1
    /\ fresh_size = 2
    /\ ~loadOut.ok

\* C8 as stated: generate fails for every seed holding an id outside
\* [0, vocab_size), whatever steps >= 0 is, and forward fails for every input
\* holding such an id.
C8_InvalidIdFails ==
    /\ (InGenerate /\ gpc # "loop" /\ ~ValidIds(seed)) => gpc = "failed"
    /\ (gpc = "scored" /\ ~ValidIds(scoreIn)) => ~scoreOut.ok

\* C9 as stated: the vocabulary cell fails on an empty corpus, so that no
\* vocabulary of size 0 is ever produced.
C9_EmptyCorpusFails ==
    cpc # "start" => (text # <<>> /\ vocab_size > 0)

\* C10: the distinct characters get the ids 0..vocab_size-1 in ascending
\* code-point order; stoi and itos are mutually inverse bijections between the
\* character set and [0, vocab_size); every id encode produces lies in
\* [0, vocab_size); and every corpus with the same character set, in whatever
\* order its set is iterated, gets the identical chars, stoi and itos.
C10_VocabularyBuild ==
    cpc # "start"
    => /\ Len(chars) = vocab_size
       /\ vocab_size = Cardinality(set(text))
       /\ set(chars) = set(text)
       /\ \A k \in 1..(Len(chars) - 1) : chars[k] < chars[k + 1]
       /\ DOMAIN stoi = set(text)
       /\ DOMAIN itos = 0..(vocab_size - 1)
       /\ \A c \in set(text) : stoi[c] \in 0..(vocab_size - 1) /\ itos[stoi[c]] = c
       /\ \A i \in 0..(vocab_size - 1) : itos[i] \in set(text) /\ stoi[itos[i]] = i
       /\ \A c1, c2 \in set(text) : c1 < c2 => stoi[c1] < stoi[c2]
       /\ \A k \in DOMAIN data : data[k] \in 0..(vocab_size - 1)
       /\ encOut.ok => \A k \in DOMAIN encOut.val : encOut.val[k] \in 0..(vocab_size - 1)
       /\ cpc = "built"
            => \A t2 \in Strings :
                 set(t2) = set(text)
                 => \A l \in list(set(t2)) :
                      /\ VocabOf(t2, l).chars = chars
                      /\ VocabOf(t2, l).stoi = stoi
                      /\ VocabOf(t2, l).itos = itos

\* a corpus whose first two characters are in descending order was built into
\* a vocabulary and a string of it encoded
C10_Witness ==
    /\ cpc = "encoded"
    /\ encOut.ok
    /\ Len(encIn) >= 2
    /\ Len(text) >= 2
    /\ text[1] > text[2]

-----------------------------------------------------------------------------
(* C11: bigram receptive field *)

\* the valid sequences a running sequence of generate is compared with: every
\* non-empty sequence of ids of the vocabulary, up to one id longer than a seed
Histories ==
    SeqUpTo(0..(vocab_size - 1), MaxSeedLen + 1) \ {<<>>}

\* the ids one iteration of generate can append to the (1,T) sequence <<h>>
Sampled(tbl, h) ==
    {r.ret.val[1][Len(h) + 1] : r \in {o \in GenerateBody(tbl, <<h>>) : o.ret.ok}}

\* C11: after every iteration of generate, the distribution the iteration
\* sampled from is the softmax of the table row indexed by the last id the
\* sequence had then, and every valid sequence of any length that ends in that
\* id gives the same distribution and the same set of ids that can be sampled
\* next: the prediction is a function of the table and the last id only.
C11_BigramReceptiveField ==
    gi >= 1 =>
        LET T == Len(idx[1]) - 1
            h == SubSeq(idx[1], 1, T)
            last == h[T]
            next == Sampled(table, h)
        IN  /\ last \in DOMAIN table
            /\ probs = <<softmax(table[last])>>
            /\ next # {}
            /\ \A y \in Histories :
                y[Len(y)] = last =>
                    /\ GenerateProbs(table, <<y>>) = Ok(probs)
                    /\ Sampled(table, y) = next

\* an iteration sampled after a history whose first id differs from its last
\* one, the two ids indexing rows of different softmax
C11_Witness ==
    /\ gpc = "returned"
    /\ gi >= 2
    /\ LET T == Len(idx[1]) - 1
       IN  /\ T >= 2
           /\ idx[1][1] # idx[1][T]
           /\ idx[1][1] \in DOMAIN table
           /\ softmax(table[idx[1][1]]) # softmax(table[idx[1][T]])
           /\ probs = <<softmax(table[idx[1][T]])>>

-----------------------------------------------------------------------------
(* C12: the training loop's schedule *)

\* the iterations below n at which the loop evaluates, in the loop's order
EvalIterations(n) ==
    [j \in 1..((n + eval_interval - 1) \div eval_interval) |-> (j - 1) * eval_interval]

\* the number of loss terms of n batches
TermsOf(n) == n * batch_size * block_size

\* the positions of one iteration after the evaluation
InIteration == {"batch", "forward", "zero_grad", "backward", "step"}

\* where the loop stands: the number of updates is the iteration number, an
\* evaluation is under way only at a multiple of eval_interval and before that
\* iteration's update, the step lines printed are those of every multiple of
\* eval_interval reached so far, and the loop is left after max_iters updates
ScheduleInv ==
    /\ optSteps = iter
    /\ iter <= max_iters
    /\ tpc = "done" => iter = max_iters /\ printed = EvalIterations(max_iters)
    /\ tpc \in InIteration \cup {"estimate"} => iter < max_iters
    /\ tpc = "loop" => printed = EvalIterations(iter)
    /\ tpc = "estimate" =>
        /\ iter % eval_interval = 0
        /\ printed = EvalIterations(iter)
        /\ split \in {"train", "val"}
        /\ evK <= eval_iters
        /\ BagCardinality(evLosses) = TermsOf(evK)
        /\ split = "train" => out.train.none
        /\ split = "val" =>
            /\ ~out.train.none
            /\ BagCardinality(out.train.val) = TermsOf(eval_iters)
    /\ tpc \in InIteration => printed = EvalIterations(iter + 1)
    /\ tpc = "failed" => printed \in {EvalIterations(iter), EvalIterations(iter + 1)}
    /\ tpc = "failed" => Len(train_data) <= block_size \/ Len(val_data) <= block_size

\* within an iteration: the loss is that of the batch sampled in it on the
\* table of the iteration, the gradient is dropped after the forward pass and
\* is the gradient of this loss before the update
OrderInv ==
    tpc \in {"zero_grad", "backward", "step"} =>
        LET f == forward(table, xb, Some(yb))
        IN  /\ IsBatchOf(xb, yb, train_data)
            /\ f.ok
            /\ loss = Some(item(f.val.loss))
            /\ tpc = "backward" => grad = None
            /\ tpc = "step" => grad = loss

\* the position that follows each position of the training cell
ScheduleStep ==
    /\ Running
    /\ Position' # Position
    /\ tpc' # tpc =>
        \/ tpc = "sample" /\ tpc' \in {"construct", "failed"}
        \/ tpc = "construct" /\ tpc' = "loop"
        \/ tpc = "loop" /\ tpc' = "estimate" /\ iter < max_iters /\ iter % eval_interval = 0
        \/ tpc = "loop" /\ tpc' = "batch" /\ iter < max_iters /\ iter % eval_interval # 0
        \/ tpc = "loop" /\ tpc' = "done" /\ iter = max_iters
        \/ tpc = "estimate" /\ tpc' \in {"batch", "failed"}
        \/ tpc = "batch" /\ tpc' \in {"forward", "failed"}
        \/ tpc = "forward" /\ tpc' \in {"zero_grad", "failed"}
        \/ tpc = "zero_grad" /\ tpc' = "backward"
        \/ tpc = "backward" /\ tpc' = "step"
        \/ tpc = "step" /\ tpc' = "loop"
    /\ (tpc = "loop" /\ tpc' = "loop") => UNCHANGED <<iter, optSteps, table, printed>>
    /\ iter' # iter =>
        tpc = "step" /\ iter' = iter + 1 /\ optSteps' = optSteps + 1
    /\ printed' # printed =>
        /\ tpc = "estimate" /\ tpc' = "batch"
        /\ split = "val" /\ evK = eval_iters
        /\ BagCardinality(evLosses) = TermsOf(eval_iters)
        /\ printed' = Append(printed, iter)
        /\ UNCHANGED <<table, optSteps, iter>>
    /\ xb' # xb => tpc \in {"sample", "batch"}
    /\ loss' # loss => tpc = "forward"
    /\ grad' # grad => tpc \in {"zero_grad", "backward"}

\* both splits hold more than block_size ids: get_batch never raises
EnoughData == Len(train_data) > block_size /\ Len(val_data) > block_size

\* C12: the training loop is left after exactly max_iters updates, and it is
\* left whenever both splits are long enough to sample from; an evaluation over
\* eval_iters batches of the train split and of the validation split runs at
\* exactly the iterations that are multiples of eval_interval, iteration 0
\* included, and before that iteration's update, so that it sees the table
\* after as many updates as the iteration number; each iteration samples the
\* batch, computes the loss, drops the gradient, back-propagates and updates,
\* in this order.
C12_TrainingSchedule ==
    /\ [](ScheduleInv /\ OrderInv)
    /\ [][ScheduleStep]_vars
    /\ (EnoughData => <>(tpc = "done"))
    /\ <>(tpc \in {"done", "failed"})

\* the loop has been left after max_iters updates and an evaluation at every
\* multiple of eval_interval, one of them after the first update
C12_Witness ==
    /\ tpc = "done"
    /\ optSteps = max_iters
    /\ printed = EvalIterations(max_iters)
    /\ Len(printed) >= 2
    /\ EnoughData

=============================================================================
